---- MODULE Spec2Model ----
(***************************************************************************)
(* RLGymEnvironment (rlgym_distrib_rl_wrapper/RLGymEnvironment.py): the    *)
(* wrapper's configuration, its step accounting table, the per-episode     *)
(* selection made by reset, and the calls it makes on the underlying       *)
(* simulation and on the DynamicGMSetter.                                  *)
(*                                                                         *)
(* A configuration value (team_size, spawn_opponents) is a record          *)
(*   [kind |-> "absent" | "scalar" | "list", val |-> <<...>>]              *)
(* where a scalar carries its value as val[1] and a list carries its       *)
(* elements.  A Python dict whose iteration order matters (the inner dict  *)
(* of _steps_by_team_size, the local counts) is a sequence of records      *)
(* [k |-> key, v |-> value] in insertion order.  A configuration is the    *)
(* record of its team_size and spawn_opponents values and the set `other`  *)
(* of the further keys the dict holds.                                     *)
(***************************************************************************)
EXTENDS Integers, Sequences, FiniteSets, TLC

\* Largest team size a configuration names.
MaxTeam == 2
\* Largest number of step calls between two reset calls.
MaxEpisodeLen == 3
\* Step calls stop once the table's total reaches this (full specification).
MaxTotal == 2
\* Step calls stop once the table's total reaches this (no reset options).
MaxTotalNoOpts == 24
\* Step calls stop once the table's total reaches this (unrecognized keys).
MaxTotalAnyKeys == 1
\* Largest number of step calls in an episode of the training loop that never stops.
FairEpisodeLen == 2
\* That loop goes on stepping for this many of its longest episodes of the
\* largest team.
FairRounds == 10

VARIABLES
    config,               \* self._config
    first_reset,          \* self._first_reset
    team_size,            \* self._team_size
    spawn_opponents,      \* self._spawn_opponents
    steps_by_team_size,   \* self._steps_by_team_size
    state_setter,         \* self._state_setter (the DynamicGMSetter and what it was told)
    env,                  \* self._env (the underlying simulation instance)
    observation_space,    \* self.observation_space
    action_space,         \* self.action_space
    last,                 \* the last call made on the wrapper and how it ended
    ep_steps,             \* step calls since the last reset call (or construction),
                          \* counted where episodes are bounded
    stray_steps           \* a step call was made outside an episode: before the
                          \* first reset call, or after a reset call that raised
                          \* (recorded where episodes are bounded)

vars == <<config, first_reset, team_size, spawn_opponents, steps_by_team_size,
          state_setter, env, observation_space, action_space, last, ep_steps,
          stray_steps>>

----------------------------------------------------------------------------
\* Configuration values

Absent == [kind |-> "absent", val |-> <<>>]
Scalar(x) == [kind |-> "scalar", val |-> <<x>>]
List(s) == [kind |-> "list", val |-> s]

Range(s) == {s[i] : i \in DOMAIN s}

\* The candidate lists over S: empty, one value, or two distinct values in
\* either order.
ListsOver(S) ==
    {<<>>} \cup {<<a>> : a \in S} \cup {<<p[1], p[2]>> : p \in {q \in S \X S : q[1] # q[2]}}

TeamSizes == 1..MaxTeam

TeamSizeValues ==
    {Absent} \cup {Scalar(t) : t \in TeamSizes} \cup {List(s) : s \in ListsOver(TeamSizes)}

SpawnOpponentsValues ==
    {Absent} \cup {Scalar(b) : b \in BOOLEAN} \cup {List(s) : s \in ListsOver(BOOLEAN)}

\* `_make_config_parsers`
MakeConfigParsers ==
    {"action_parser", "obs_builder", "state_setter", "reward_function",
     "terminal_conditions"}

\* `_make_kwarg_names`
MakeKwargNames ==
    {"reward_function", "terminal_conditions", "obs_builder", "action_parser",
     "state_setter", "team_size", "spawn_opponents", "copy_gamestate_every_step",
     "tick_skip", "gravity", "boost_consumption", "dodge_deadzone"}

\* Keys a configuration may hold that are in neither of the two.
UnknownKeys == {"team_sizes"}

\* The configurations that hold no key besides team_size and spawn_opponents.
Configs ==
    [team_size : TeamSizeValues, spawn_opponents : SpawnOpponentsValues, other : {{}}]

\* The configurations that may hold unrecognized keys as well, with the
\* smallest and the largest team size.
ConfigsAnyKeys ==
    [team_size : {Absent} \cup {Scalar(t) : t \in {1, MaxTeam}}
                    \cup {List(l) : l \in ListsOver({1, MaxTeam})},
     spawn_opponents : SpawnOpponentsValues,
     other : SUBSET UnknownKeys]

\* The configurations that do hold an unrecognized key.
ConfigsUnknownKeys == {cfg \in ConfigsAnyKeys : cfg.other # {}}

\* The keys of the configuration dict.
ConfigKeys(cfg) ==
    cfg.other \cup {k \in {"team_size", "spawn_opponents"} : cfg[k].kind # "absent"}

\* dict.get(key, default)
ConfigGet(cv, default) == IF cv.kind = "absent" THEN default ELSE cv

IsList(cv) == cv.kind = "list"

ScalarValue(cv) == cv.val[1]

\* `if type(x) is not list: x = [x]`
AsList(cv) == IF IsList(cv) THEN cv.val ELSE <<ScalarValue(cv)>>

----------------------------------------------------------------------------
\* Python built-ins on lists and dicts

RECURSIVE PyMin(_)
\* min(list) of a non-empty list.
PyMin(s) ==
    IF Len(s) = 1 THEN s[1]
    ELSE LET m == PyMin(Tail(s)) IN IF s[1] <= m THEN s[1] ELSE m

RECURSIVE PyMax(_)
\* max(list); the caller handles the empty list (ValueError).
PyMax(s) ==
    IF Len(s) = 1 THEN s[1]
    ELSE LET m == PyMax(Tail(s)) IN IF s[1] >= m THEN s[1] ELSE m

DictKeys(d) == {d[i].k : i \in DOMAIN d}

DictGet(d, key) == (CHOOSE i \in DOMAIN d : d[i].k = key) \* index of key
DictValue(d, key) == d[DictGet(d, key)].v

RECURSIVE DictFromKeys(_)
\* {key: 0 for key in s}: one entry per distinct key, in order of first occurrence.
DictFromKeys(s) ==
    IF s = <<>> THEN <<>>
    ELSE LET front == DictFromKeys(SubSeq(s, 1, Len(s) - 1))
             key == s[Len(s)]
         IN IF key \in DictKeys(front) THEN front
            ELSE Append(front, [k |-> key, v |-> 0])

RECURSIVE DictSum(_)
\* sum(d.values())
DictSum(d) == IF d = <<>> THEN 0 ELSE d[1].v + DictSum(Tail(d))

\* The last key, in iteration order, whose value is least.
DictMinKeyLast(d) ==
    LET least == CHOOSE i \in DOMAIN d :
                    /\ \A j \in DOMAIN d : d[i].v <= d[j].v
                    /\ \A j \in DOMAIN d : j > i => d[j].v > d[i].v
    IN d[least].k

\* min(d, key=d.get): the first key, in iteration order, whose value is least.
DictMinKey(d) ==
    LET least == CHOOSE i \in DOMAIN d :
                    /\ \A j \in DOMAIN d : d[i].v <= d[j].v
                    /\ \A j \in DOMAIN d : j < i => d[j].v > d[i].v
    IN d[least].k

\* n added to every entry of d: the counts of the buckets next to key move too.
DictAddAll(d, key, n) ==
    [i \in DOMAIN d |-> [k |-> d[i].k, v |-> d[i].v + n]]

\* d[key] += n
DictAdd(d, key, n) ==
    [i \in DOMAIN d |-> IF d[i].k = key THEN [k |-> key, v |-> d[i].v + n] ELSE d[i]]

----------------------------------------------------------------------------
\* The step accounting table

\* _init_step_counter with the default of spawn_opponents taken to be [True].
InitStepCounterSpawnDefault(cfg) ==
    LET spawn == AsList(ConfigGet(cfg.spawn_opponents, List(<<TRUE>>)))
        sizes == AsList(ConfigGet(cfg.team_size, List(<<1>>)))
    IN [b \in Range(spawn) |-> DictFromKeys(sizes)]

\* RLGymEnvironment._init_step_counter
InitStepCounter(cfg) ==
    LET spawn == AsList(ConfigGet(cfg.spawn_opponents, List(<<FALSE>>)))
        sizes == AsList(ConfigGet(cfg.team_size, List(<<1>>)))
    IN [b \in Range(spawn) |-> DictFromKeys(sizes)]

HasBucket(steps, spawn, size) ==
    /\ spawn \in DOMAIN steps
    /\ size \in DictKeys(steps[spawn])

Bucket(steps, spawn, size) == DictValue(steps[spawn], size)

SpawnSum(steps, spawn) == DictSum(steps[spawn])

TableTotal(steps) ==
    (IF FALSE \in DOMAIN steps THEN SpawnSum(steps, FALSE) ELSE 0)
    + (IF TRUE \in DOMAIN steps THEN SpawnSum(steps, TRUE) ELSE 0)

\* The (spawn, size) pairs that are buckets of the table.
TableKeys(steps) ==
    {p \in BOOLEAN \X TeamSizes : HasBucket(steps, p[1], p[2])}

----------------------------------------------------------------------------
\* The `raise ValueError` of line 258 in force: an unknown key aborts.
KeyOutcomeUnknownRaises(key) ==
    IF key \in MakeConfigParsers THEN "parsed"
    ELSE IF key \in MakeKwargNames THEN "copied"
    ELSE "ValueError"

\* _parse_make_kwargs, the loop body for one key: its value goes through the
\* key's parser, or is copied into kwargs, or the key is skipped with a warning.
KeyOutcome(key) ==
    IF key \in MakeConfigParsers THEN "parsed"
    ELSE IF key \in MakeKwargNames THEN "copied"
    ELSE "skipped"

\* kwargs[key] after the loop: the configuration's value if the loop copied
\* it, the default otherwise.
Kwarg(cfg, key, default) ==
    IF key \in ConfigKeys(cfg) /\ KeyOutcome(key) = "copied" THEN cfg[key] ELSE default

\* RLGymEnvironment._parse_make_kwargs, for the two settings the wrapper reads:
\* the kwargs given to make() and the fields of self it assigns.  max([])
\* raises ValueError after self._spawn_opponents has been assigned.
ParseMakeKwargs(cfg, cur_team_size, cur_spawn_opponents) ==
    LET kw_spawn == Kwarg(cfg, "spawn_opponents", Scalar(FALSE))
        kw_team == Kwarg(cfg, "team_size", Scalar(1))
        self_spawn == IF IsList(kw_spawn) THEN TRUE ELSE cur_spawn_opponents
    IN IF \E key \in ConfigKeys(cfg) : KeyOutcome(key) = "ValueError"
       THEN [err |-> "ValueError", kw_team_size |-> 0, kw_spawn_opponents |-> FALSE,
             team_size |-> cur_team_size, spawn_opponents |-> cur_spawn_opponents]
       ELSE IF IsList(kw_team) /\ kw_team.val = <<>>
       THEN [err |-> "ValueError", kw_team_size |-> 0, kw_spawn_opponents |-> FALSE,
             team_size |-> cur_team_size, spawn_opponents |-> self_spawn]
       ELSE [err |-> "",
             kw_team_size |-> IF IsList(kw_team) THEN PyMax(kw_team.val)
                              ELSE ScalarValue(kw_team),
             kw_spawn_opponents |-> IF IsList(kw_spawn) THEN TRUE
                                    ELSE ScalarValue(kw_spawn),
             team_size |-> IF IsList(kw_team) THEN PyMax(kw_team.val)
                           ELSE cur_team_size,
             spawn_opponents |-> self_spawn]

\* DynamicGMSetter(kwargs["state_setter"]): a new adapter, told nothing yet.
NewSetter == [blue |-> 0, orange |-> 0]

\* DynamicGMSetter.set_team_size(blue, orange)
SetTeamSize(setter, blue, orange) == [setter EXCEPT !.blue = blue, !.orange = orange]

\* make(**make_kwargs): a new open instance that wraps the adapter just built.
Make(p) == [open |-> TRUE, setter |-> TRUE,
            team_size |-> p.kw_team_size, spawn_opponents |-> p.kw_spawn_opponents]

\* self._env.observation_space, self._env.action_space: the descriptors an
\* instance exposes, fixed by what it was constructed with.
ObservationSpace(e) ==
    [space |-> "observation", team_size |-> e.team_size,
     spawn_opponents |-> e.spawn_opponents]
ActionSpace(e) ==
    [space |-> "action", team_size |-> e.team_size,
     spawn_opponents |-> e.spawn_opponents]

\* make() called while the old instance is still open, close() after it.
RebuildCallsMakeFirst == <<"make", "close">>

\* `self._env.close()` then `self._env = make(**make_kwargs)`
RebuildCalls == <<"close", "make">>

\* The rebuild run on every reset, options or not.
RebuildAlways(has_options) == TRUE

\* `if options is not None`
RebuildRequested(has_options) == has_options

\* reset, the part run when options are given: self._config = options, parse,
\* close the old instance, make the new one, _init_step_counter, refresh the
\* spaces.  close() and make() are taken to return.
Rebuild(has_options, options) ==
    LET same == [err |-> "", config |-> config, first_reset |-> first_reset,
                 team_size |-> team_size,
                 spawn_opponents |-> spawn_opponents, steps |-> steps_by_team_size,
                 state_setter |-> state_setter, env |-> env,
                 observation_space |-> observation_space,
                 action_space |-> action_space, calls |-> <<>>]
        p == ParseMakeKwargs(options, team_size, spawn_opponents)
        parsed == [same EXCEPT !.config = options, !.team_size = p.team_size,
                               !.spawn_opponents = p.spawn_opponents]
    IN IF ~RebuildRequested(has_options) THEN same
       ELSE IF p.err # "" THEN [parsed EXCEPT !.err = p.err]
       ELSE [parsed EXCEPT !.state_setter = NewSetter, !.env = Make(p),
                           !.steps = InitStepCounter(options),
                           !.observation_space = ObservationSpace(Make(p)),
                           !.action_space = ActionSpace(Make(p)),
                           !.calls = RebuildCalls]

\* counts built as {True: ..., False: ...}: ties go to True.
LeastExposedSpawnTrueFirst(steps) ==
    DictMinKey(<<[k |-> TRUE, v |-> SpawnSum(steps, TRUE)],
                 [k |-> FALSE, v |-> SpawnSum(steps, FALSE)]>>)

\* max in place of min: the side with the most steps, ties to False.
MostExposedSpawn(steps) ==
    IF SpawnSum(steps, TRUE) > SpawnSum(steps, FALSE) THEN TRUE ELSE FALSE

\* min(counts, key=counts.get) over counts = {False: ..., True: ...}
LeastExposedSpawn(steps) ==
    DictMinKey(<<[k |-> FALSE, v |-> SpawnSum(steps, FALSE)],
                 [k |-> TRUE, v |-> SpawnSum(steps, TRUE)]>>)

\* reset, `if type(spawn_opponents) is list`: the new self._spawn_opponents
\* (self) and the local spawn_opponents (local).
SelectSpawnOpponents(cfg, first, steps, cur_spawn_opponents) ==
    LET setting == ConfigGet(cfg.spawn_opponents, Scalar(FALSE))
    IN IF ~IsList(setting)
       THEN [err |-> "", self |-> cur_spawn_opponents, local |-> ScalarValue(setting)]
       ELSE IF first THEN [err |-> "", self |-> TRUE, local |-> TRUE]
       ELSE IF cur_spawn_opponents \notin DOMAIN steps
       THEN [err |-> "KeyError", self |-> cur_spawn_opponents, local |-> FALSE]
       ELSE IF Len(steps[cur_spawn_opponents]) = 0
       THEN [err |-> "", self |-> TRUE, local |-> TRUE]
       ELSE IF FALSE \notin DOMAIN steps \/ TRUE \notin DOMAIN steps
       THEN [err |-> "KeyError", self |-> cur_spawn_opponents, local |-> FALSE]
       ELSE [err |-> "", self |-> LeastExposedSpawn(steps),
             local |-> LeastExposedSpawn(steps)]

\* reset, `if type(team_size) is list`: the new self._team_size (self) and the
\* local team_size (local).  self_spawn is self._spawn_opponents and
\* local_spawn the local spawn_opponents, both after the selection above.
SelectTeamSize(cfg, first, steps, self_spawn, local_spawn, cur_team_size) ==
    LET setting == ConfigGet(cfg.team_size, Scalar(1))
        by_size == IF local_spawn \in DOMAIN steps THEN steps[local_spawn]
                   ELSE DictFromKeys(setting.val)
    IN IF ~IsList(setting)
       THEN [err |-> "", self |-> cur_team_size, local |-> ScalarValue(setting)]
       ELSE IF ~first /\ self_spawn \notin DOMAIN steps
       THEN [err |-> "KeyError", self |-> cur_team_size, local |-> 0]
       ELSE IF first \/ Len(steps[self_spawn]) = 0
       THEN IF setting.val = <<>>
            THEN [err |-> "ValueError", self |-> cur_team_size, local |-> 0]
            ELSE [err |-> "", self |-> PyMax(setting.val), local |-> PyMax(setting.val)]
       ELSE IF by_size = <<>>
       THEN [err |-> "ValueError", self |-> cur_team_size, local |-> 0]
       ELSE [err |-> "", self |-> DictMinKey(by_size), local |-> DictMinKey(by_size)]

\* `orange_team_size = team_size if spawn_opponents else 0`
OrangeTeamSize(local_team, local_spawn) == IF local_spawn THEN local_team ELSE 0

\* RLGymEnvironment.reset as a whole: every field of self after the call, how
\* the call ended and the calls it made on its collaborators, in order.
\* reset_ok is whether the underlying simulation's reset returns.
Reset(has_options, options, reset_ok) ==
    LET r == Rebuild(has_options, options)
        s == SelectSpawnOpponents(r.config, first_reset, r.steps, r.spawn_opponents)
        t == SelectTeamSize(r.config, first_reset, r.steps, s.self, s.local, r.team_size)
    IN IF r.err # "" THEN r
       ELSE IF s.err # "" THEN [r EXCEPT !.err = s.err]
       ELSE IF t.err # "" THEN [r EXCEPT !.err = t.err, !.spawn_opponents = s.self]
       ELSE [r EXCEPT !.err = IF reset_ok THEN "" ELSE "ResetError",
                      !.first_reset = FALSE,
                      !.spawn_opponents = s.self,
                      !.team_size = t.self,
                      !.state_setter = SetTeamSize(r.state_setter, t.local,
                                                   OrangeTeamSize(t.local, s.local)),
                      !.calls = r.calls \o <<"set_team_size", "reset">>]

\* `-=` in place of `+=`: the agent count taken off the bucket.
StepsToTakeOff(size, spawn) == IF spawn THEN 0 - size * 2 ELSE 0 - size

\* `steps_to_add = self._team_size * 2 if self._spawn_opponents else self._team_size`
StepsToAdd(size, spawn) == IF spawn THEN size * 2 ELSE size

\* done returned in both components.
StepResultDoneTwice(done) == [terminated |-> done, truncated |-> done]

\* `return obs, reward, done, False, info`: the terminated and truncated components.
StepResult(done) == [terminated |-> done, truncated |-> FALSE]

----------------------------------------------------------------------------
\* The wrapper after __init__(**kwargs), for every configuration __init__ accepts.

Outcome(r) == IF r.err = "" THEN "ok" ELSE r.err

InitOver(cfgs) ==
    \E cfg \in cfgs :
        LET p == ParseMakeKwargs(cfg, 1, FALSE)
        IN /\ p.err = ""
           /\ config = cfg
           /\ first_reset = TRUE
           /\ team_size = p.team_size
           /\ spawn_opponents = p.spawn_opponents
           /\ steps_by_team_size = InitStepCounter(cfg)
           /\ state_setter = NewSetter
           /\ env = Make(p)
           /\ observation_space = ObservationSpace(Make(p))
           /\ action_space = ActionSpace(Make(p))
           /\ last = [op |-> "init", options |-> FALSE, outcome |-> "ok",
                      done |-> FALSE, terminated |-> FALSE, truncated |-> FALSE, calls |-> <<"make">>]
           /\ ep_steps = 0
           /\ stray_steps = FALSE

\* Constructed from a configuration of team_size and spawn_opponents only.
Init == InitOver(Configs)

\* RLGymEnvironment.step: the accounting, then the underlying simulation's
\* step (which returns done, or raises).  bounded: episodes are bounded, and
\* the step calls of the episode are counted.
Step(cap, bounded) ==
    /\ bounded => ep_steps < MaxEpisodeLen
    /\ TableTotal(steps_by_team_size) < cap
    /\ \E raises \in BOOLEAN, done \in BOOLEAN :
        LET found == HasBucket(steps_by_team_size, spawn_opponents, team_size)
            ret == StepResult(done)
        IN /\ steps_by_team_size' =
                 IF found
                 THEN [steps_by_team_size EXCEPT ![spawn_opponents] =
                          DictAdd(@, team_size, StepsToAdd(team_size, spawn_opponents))]
                 ELSE steps_by_team_size
           /\ last' = [op |-> "step", options |-> FALSE,
                       outcome |-> IF ~found THEN "KeyError"
                                   ELSE IF raises THEN "StepError" ELSE "ok",
                       done |-> found /\ ~raises /\ done,
                       terminated |-> found /\ ~raises /\ ret.terminated,
                       truncated |-> found /\ ~raises /\ ret.truncated,
                       calls |-> IF found THEN <<"step">> ELSE <<>>]
    /\ ep_steps' = IF bounded THEN ep_steps + 1 ELSE ep_steps
    /\ stray_steps' = (\/ stray_steps
                       \/ bounded /\ last.op = "init"
                       \/ bounded /\ last.op = "reset" /\ last.outcome # "ok")
    /\ UNCHANGED <<config, first_reset, team_size, spawn_opponents, state_setter, env,
                   observation_space, action_space>>

ResetCall(has_options, options, reset_ok) ==
    \E r \in {Reset(has_options, options, reset_ok)} :
       /\ config' = r.config
       /\ first_reset' = r.first_reset
       /\ team_size' = r.team_size
       /\ spawn_opponents' = r.spawn_opponents
       /\ steps_by_team_size' = r.steps
       /\ state_setter' = r.state_setter
       /\ env' = r.env
       /\ observation_space' = r.observation_space
       /\ action_space' = r.action_space
       /\ last' = [op |-> "reset", options |-> has_options, outcome |-> Outcome(r),
                   done |-> FALSE, terminated |-> FALSE, truncated |-> FALSE, calls |-> r.calls]
       /\ ep_steps' = 0
       /\ UNCHANGED stray_steps

\* reset(options=None)
ResetNone == \E reset_ok \in BOOLEAN : ResetCall(FALSE, config, reset_ok)

\* reset(options=cfg)
ResetOptions ==
    \E cfg \in Configs, reset_ok \in BOOLEAN : ResetCall(TRUE, cfg, reset_ok)

\* step where reset may be given options: episodes of any length.
StepAny == Step(MaxTotal, FALSE)

Next == StepAny \/ ResetNone \/ ResetOptions

Spec == Init /\ [][Next]_vars

\* The wrapper constructed from a configuration that may hold unrecognized
\* keys, and given options that do hold one.  Step calls stop once the table's
\* total reaches MaxTotalAnyKeys.
InitAnyKeys == InitOver(ConfigsAnyKeys)

StepAnyKeys == Step(MaxTotalAnyKeys, FALSE)

ResetOptionsAnyKeys ==
    \E cfg \in ConfigsUnknownKeys, reset_ok \in BOOLEAN : ResetCall(TRUE, cfg, reset_ok)

NextAnyKeys == StepAnyKeys \/ ResetNone \/ ResetOptionsAnyKeys

SpecAnyKeys == InitAnyKeys /\ [][NextAnyKeys]_vars

\* The wrapper when reset is never given options and an episode has at most
\* MaxEpisodeLen step calls.
StepEpisode == Step(MaxTotalNoOpts, TRUE)

NextNoOptions == StepEpisode \/ ResetNone

SpecNoOptions == Init /\ [][NextNoOptions]_vars

\* The wrapper constructed with spawn_opponents=[False, True] and a team_size
\* list (of the smallest and the largest size), driven by a training loop that
\* never gives options, never stops calling, resets before it steps, puts at
\* least one and at most FairEpisodeLen step calls between two reset calls, and
\* stops stepping once the table's total reaches FairTotal.
ConfigsFair ==
    {cfg \in Configs : /\ cfg.spawn_opponents = List(<<FALSE, TRUE>>)
                       /\ IsList(cfg.team_size) /\ cfg.team_size.val # <<>>
                       /\ Range(cfg.team_size.val) \subseteq {1, MaxTeam}}

FairTotal == FairRounds * FairEpisodeLen * MaxTeam + FairRounds

InitFair == InitOver(ConfigsFair)

StepFair == last.op # "init" /\ ep_steps < FairEpisodeLen /\ Step(FairTotal, TRUE)

ResetFair == (last.op = "init" \/ ep_steps >= 1) /\ ResetNone

NextFair == StepFair \/ ResetFair

\* ENABLED <<ResetFair>>_vars: the guard of ResetFair (a reset call always
\* changes last or ep_steps).
ResetFairEnabled == last.op = "init" \/ ep_steps >= 1

\* WF_vars(ResetFair), with its ENABLED written out.
ResetFairness == []<>(~ResetFairEnabled) \/ []<><<ResetFair>>_vars

\* The loop goes on calling: a step call that stays possible is made, and so
\* is a reset call.
SpecFair == InitFair /\ [][NextFair]_vars /\ WF_vars(StepFair) /\ ResetFairness

----------------------------------------------------------------------------
\* What the claims speak of

\* The candidates of a setting: a scalar as a one-element list, an absent
\* setting as its default.
SpawnCandidates(cfg) == Range(AsList(ConfigGet(cfg.spawn_opponents, Scalar(FALSE))))
TeamCandidates(cfg) == Range(AsList(ConfigGet(cfg.team_size, Scalar(1))))

\* No candidate list of the configuration is empty.
WellFormed(cfg) ==
    /\ IsList(cfg.team_size) => cfg.team_size.val # <<>>
    /\ IsList(cfg.spawn_opponents) => cfg.spawn_opponents.val # <<>>

MaxOf(S) == CHOOSE m \in S : \A x \in S : x <= m

\* The call returned, or raised only because the underlying simulation raised.
Proceeded(l) == l.outcome \in {"ok", "StepError", "ResetError"}

\* The configuration the last reset told the adapter: the live episode's.
LiveSpawn == state_setter.orange # 0
LiveTeam == state_setter.blue
LiveAgents == IF LiveSpawn THEN 2 * LiveTeam ELSE LiveTeam

SumTrue == SpawnSum(steps_by_team_size, TRUE)
SumFalse == SpawnSum(steps_by_team_size, FALSE)
SumGap == IF SumTrue >= SumFalse THEN SumTrue - SumFalse ELSE SumFalse - SumTrue

BothSides == config.spawn_opponents = List(<<FALSE, TRUE>>)

\* A reset call has just been made: a reset boundary.
AtReset == last.op = "reset"

\* C1: for every configuration accepted at construction (and without empty
\* lists), one step call after a reset succeeds and adds exactly n to the bucket
\* of the configuration governing the live episode and to no other bucket,
\* n = team size without opponents and 2 x team size with opponents.
C1_StepAddsAgentCount ==
    [][(WellFormed(config) /\ last.op = "reset" /\ last.outcome = "ok"
          /\ last'.op = "step") =>
          /\ last'.outcome # "KeyError"
          /\ HasBucket(steps_by_team_size, LiveSpawn, LiveTeam)
          /\ steps_by_team_size' =
                [steps_by_team_size EXCEPT ![LiveSpawn] =
                    DictAdd(@, LiveTeam, LiveAgents)]]_vars

\* The candidate listed first among those whose bucket under spawn is least.
LeastCountListedFirst(steps, spawn, sizes) ==
    LET i == CHOOSE i \in DOMAIN sizes :
                /\ \A j \in DOMAIN sizes :
                      Bucket(steps, spawn, sizes[i]) <= Bucket(steps, spawn, sizes[j])
                /\ \A j \in DOMAIN sizes :
                      j < i => Bucket(steps, spawn, sizes[j]) > Bucket(steps, spawn, sizes[i])
    IN sizes[i]

\* C2: with team size a candidate list and no options ever given, the first
\* reset selects the maximum candidate and every later reset selects the
\* candidate whose bucket, under the opponents-present value chosen at that
\* reset, has the lowest count, ties to the candidate listed first.
C2_TeamSizeSelection ==
    [][(WellFormed(config) /\ IsList(config.team_size) /\ last'.op = "reset") =>
          /\ Proceeded(last')
          /\ team_size' =
                IF first_reset THEN MaxOf(Range(config.team_size.val))
                ELSE LeastCountListedFirst(steps_by_team_size, LiveSpawn',
                                           config.team_size.val)]_vars

\* C3: with opponents-present [false, true] and no options ever given, the
\* first reset selects true and every later reset selects the side whose sum
\* of bucket counts is strictly smaller, false when the sums are equal.
C3_SpawnSelection ==
    [][(BothSides /\ last'.op = "reset") =>
          /\ Proceeded(last')
          /\ spawn_opponents' =
                IF first_reset THEN TRUE
                ELSE IF SumTrue < SumFalse THEN TRUE ELSE FALSE
          /\ LiveSpawn' = spawn_opponents']_vars

\* A later reset chose true because its sum was strictly the smaller one.
C3_Witness ==
    /\ BothSides /\ AtReset /\ Proceeded(last)
    /\ ~first_reset /\ spawn_opponents
    /\ 0 < SumTrue /\ SumTrue < SumFalse

\* One episode's worth of steps for a side: MaxEpisodeLen step calls of the
\* largest candidate team, counted once without and twice with opponents.
EpisodeWorth(spawn) ==
    MaxEpisodeLen * MaxOf(TeamCandidates(config)) * (IF spawn THEN 2 ELSE 1)

\* C4 as stated: at every reset boundary the two sums differ by at most one
\* episode's worth of steps for the side with the smaller sum.
C4_GapWithinSmallerEpisode ==
    (BothSides /\ AtReset /\ ~stray_steps) =>
        SumGap <= EpisodeWorth(IF SumTrue < SumFalse THEN TRUE ELSE FALSE)

\* C4, amended: with opponents-present [false, true], no options ever given,
\* no step outside an episode and at most MaxEpisodeLen steps in an episode,
\* at every reset boundary the two sums differ by at most one episode's worth
\* of steps for the side with the larger sum.
C4_GapWithinLargerEpisode ==
    (BothSides /\ AtReset /\ ~stray_steps) =>
        SumGap <= EpisodeWorth(IF SumTrue > SumFalse THEN TRUE ELSE FALSE)

\* The gap is a full episode with opponents: more than the smaller side's worth.
C4_Witness ==
    /\ BothSides /\ AtReset /\ ~stray_steps
    /\ SumTrue - SumFalse = EpisodeWorth(TRUE)
    /\ SumGap > EpisodeWorth(FALSE)

\* C5: a reset with options=None leaves every bucket and the key set of the
\* table as they were and never sets the first-episode flag back to true.
C5_ResetNoneKeepsTable ==
    [][(last'.op = "reset" /\ ~last'.options) =>
          /\ steps_by_team_size' = steps_by_team_size
          /\ (first_reset' => first_reset)]_vars

\* A reset with options=None was made over a table that holds counts.
C5_Witness ==
    /\ AtReset /\ ~last.options /\ last.outcome = "ok"
    /\ ~first_reset
    /\ TableTotal(steps_by_team_size) > 0

\* The last call built the simulation: construction, or a reset with options
\* whose configuration the parse accepted.
JustBuilt == "make" \in Range(last.calls)

\* C6: after construction and after every reset with options, the table has
\* exactly one bucket for each pair of the cross-product of the current
\* configuration's candidates, every bucket is zero, and no other bucket.
C6_TableRebuiltFromConfig ==
    JustBuilt =>
        /\ DOMAIN steps_by_team_size = SpawnCandidates(config)
        /\ TableKeys(steps_by_team_size) = SpawnCandidates(config) \X TeamCandidates(config)
        /\ \A b \in DOMAIN steps_by_team_size :
              /\ Len(steps_by_team_size[b]) = Cardinality(TeamCandidates(config))
              /\ \A i \in DOMAIN steps_by_team_size[b] : steps_by_team_size[b][i].v = 0

\* A reset with options, made after an earlier reset had completed, rebuilt a
\* table of four buckets.
C6_Witness ==
    /\ AtReset /\ last.options /\ JustBuilt
    /\ Cardinality(TableKeys(steps_by_team_size)) = 4
    /\ ~first_reset

\* C7: a step call that returns yields truncated = false and terminated = the
\* underlying simulation's done.
C7_StepNeverTruncated ==
    (last.op = "step" /\ last.outcome = "ok") =>
        /\ last.truncated = FALSE
        /\ last.terminated = last.done

\* A step returned with the underlying simulation reporting done.
C7_Witness == last.op = "step" /\ last.outcome = "ok" /\ last.done

\* The pair a reset chose: the selected candidate of a list, the fixed value
\* of a scalar, the default of an absent setting.
ChosenTeam ==
    IF IsList(config.team_size) THEN team_size
    ELSE ScalarValue(ConfigGet(config.team_size, Scalar(1)))
ChosenSpawn ==
    IF IsList(config.spawn_opponents) THEN spawn_opponents
    ELSE ScalarValue(ConfigGet(config.spawn_opponents, Scalar(FALSE)))

\* The number of times fn occurs in a sequence of calls.
Count(calls, fn) == Cardinality({i \in DOMAIN calls : calls[i] = fn})

\* C8: every reset (of a configuration without empty lists) calls set_team_size
\* exactly once, with blue = the chosen team size and orange = that size with
\* opponents and 0 without, before the underlying reset; after a reset with
\* options the adapter told is the one wrapped into the new simulation.
C8_AdapterToldOnEveryReset ==
    (AtReset /\ WellFormed(config)) =>
        /\ Count(last.calls, "set_team_size") = 1
        /\ \E i, j \in DOMAIN last.calls :
              i < j /\ last.calls[i] = "set_team_size" /\ last.calls[j] = "reset"
        /\ state_setter.blue = ChosenTeam
        /\ state_setter.orange = (IF ChosenSpawn THEN ChosenTeam ELSE 0)
        /\ last.options => env.setter

\* C9: a step or reset that looks up a key outside the declared candidates
\* does not fail: the bucket is created at zero and the call proceeds.
C9_MissingKeyCreated ==
    (last.op \in {"step", "reset"} /\ WellFormed(config)) => Proceeded(last)

\* C10: the first-episode flag stays true until a reset completes
\* successfully, is false from then on, and a reset that fails leaves it.
C10_FlagClearedBySuccessfulReset ==
    [][first_reset' = (first_reset /\ ~(last'.op = "reset" /\ last'.outcome = "ok"))]_vars

\* The last call was not a rebuild and the table holds what the step calls
\* since the last rebuild added.
NoRebuild == ~JustBuilt

\* C11: between two rebuilds, over step and reset calls, every bucket count is
\* a non-negative integer that never decreases and no bucket is removed.
C11_TableMonotoneBetweenRebuilds ==
    [][NoRebuild' =>
          /\ DOMAIN steps_by_team_size \subseteq DOMAIN steps_by_team_size'
          /\ \A p \in TableKeys(steps_by_team_size) :
                /\ HasBucket(steps_by_team_size', p[1], p[2])
                /\ Bucket(steps_by_team_size', p[1], p[2])
                      >= Bucket(steps_by_team_size, p[1], p[2])
          /\ \A p \in TableKeys(steps_by_team_size') :
                Bucket(steps_by_team_size', p[1], p[2]) \in Nat]_vars

\* Since the last rebuild a reset has completed and step calls have added to
\* one bucket twice, next to a bucket still at zero.
C11_Witness ==
    /\ last.op = "step" /\ last.outcome = "ok" /\ ~first_reset
    /\ \E p \in TableKeys(steps_by_team_size) :
          Bucket(steps_by_team_size, p[1], p[2]) >= 2 * StepsToAdd(p[2], p[1])
    /\ \E p \in TableKeys(steps_by_team_size) :
          Bucket(steps_by_team_size, p[1], p[2]) = 0

RECURSIVE PeakOpen(_, _)
\* The largest number of simulation instances open at once while the calls
\* are made in order, starting from `open` open instances.
PeakOpen(calls, open) ==
    IF calls = <<>> THEN open
    ELSE LET now == IF calls[1] = "make" THEN open + 1
                    ELSE IF calls[1] = "close" THEN open - 1
                    ELSE open
             rest == PeakOpen(Tail(calls), now)
         IN IF rest > now THEN rest ELSE now

\* The position of the first call of fn in a sequence of calls that has one.
IndexOf(calls, fn) ==
    CHOOSE i \in DOMAIN calls : calls[i] = fn /\ \A j \in 1..(i - 1) : calls[j] # fn

\* C12: a reset with options closes the old simulation instance before it
\* constructs the new one, so that two open instances never coexist, and after
\* the rebuild observation_space and action_space are the new instance's.
C12_OldClosedBeforeNewMade ==
    /\ PeakOpen(last.calls, IF last.op = "init" THEN 0 ELSE 1) <= 1
    /\ (AtReset /\ last.options /\ JustBuilt) =>
          /\ Count(last.calls, "close") = 1
          /\ Count(last.calls, "make") = 1
          /\ IndexOf(last.calls, "close") < IndexOf(last.calls, "make")
          /\ env.open
          /\ observation_space = ObservationSpace(env)
          /\ action_space = ActionSpace(env)

\* A reset with options has rebuilt the simulation for two players a side
\* with opponents, and the reset went through.
C12_Witness ==
    /\ AtReset /\ last.options /\ JustBuilt /\ last.outcome = "ok"
    /\ env.team_size = 2 /\ env.spawn_opponents
    /\ observation_space.team_size = 2 /\ observation_space.spawn_opponents

\* The configuration without its unrecognized keys.
Strip(cfg) == [cfg EXCEPT !.other = {}]

\* What construction from cfg yields when no key aborts it.
Constructed(cfg) ==
    LET p == ParseMakeKwargs(cfg, 1, FALSE)
    IN [err |-> p.err, team_size |-> p.team_size, spawn_opponents |-> p.spawn_opponents,
        steps |-> InitStepCounter(cfg), env |-> Make(p)]

\* C13: unrecognized keys never abort construction or a reset with options;
\* they are skipped, and the construction arguments, the table and the
\* selection are those of the same configuration without the keys.
C13_UnknownKeysSkipped ==
    /\ [](last.op = "init" =>
            \E c \in {Constructed(Strip(config))} :
               /\ c.err = ""
               /\ env = c.env
               /\ steps_by_team_size = c.steps
               /\ team_size = c.team_size
               /\ spawn_opponents = c.spawn_opponents)
    /\ [][(last'.op = "reset" /\ last'.options) =>
            \E r \in {Reset(TRUE, Strip(config'), last'.outcome # "ResetError")} :
               /\ last'.outcome = Outcome(r)
               /\ last'.calls = r.calls
               /\ env' = r.env
               /\ steps_by_team_size' = r.steps
               /\ team_size' = r.team_size
               /\ spawn_opponents' = r.spawn_opponents
               /\ state_setter' = r.state_setter
               /\ first_reset' = r.first_reset]_vars
    /\ [][(last'.op = "reset" /\ ~last'.options /\ Proceeded(last')) =>
            LET s == SelectSpawnOpponents(Strip(config), first_reset,
                                          steps_by_team_size, spawn_opponents)
                t == SelectTeamSize(Strip(config), first_reset, steps_by_team_size,
                                    s.self, s.local, team_size)
            IN /\ spawn_opponents' = s.self
               /\ team_size' = t.self
               /\ state_setter' =
                     SetTeamSize(state_setter, t.local, OrangeTeamSize(t.local, s.local))]_vars

\* A reset whose options hold an unrecognized key next to two candidate lists
\* has rebuilt the simulation and a table of four buckets, and selected.
C13_Witness ==
    /\ AtReset /\ last.options /\ last.outcome = "ok" /\ JustBuilt
    /\ config.other # {}
    /\ Cardinality(TableKeys(steps_by_team_size)) = 4
    /\ env.team_size = 2 /\ env.spawn_opponents
    /\ state_setter.blue = ChosenTeam

\* The options declare candidate lists: both opponents-present values, in
\* either order, and at least one team size.
CandidateLists(cfg) ==
    /\ IsList(cfg.spawn_opponents) /\ Range(cfg.spawn_opponents.val) = BOOLEAN
    /\ IsList(cfg.team_size) /\ cfg.team_size.val # <<>>

\* C14: a reset with options declaring candidate lists, on a wrapper whose
\* first-episode flag is already cleared, selects by the least-exposure rule
\* over the zeroed table: opponents-present false and the first-listed team
\* size, not (true, maximum team size).
C14_PostRebuildSteadyState ==
    [][(last'.op = "reset" /\ last'.options /\ ~first_reset /\ CandidateLists(config')) =>
          /\ Proceeded(last')
          /\ JustBuilt'
          /\ spawn_opponents' = FALSE
          /\ team_size' = config'.team_size.val[1]
          /\ state_setter'.blue = config'.team_size.val[1]
          /\ state_setter'.orange = 0]_vars

\* A reset with options [true, false] x [1, 2] has rebuilt the table and
\* selected (false, 1), where the first-episode rule selects (true, 2).
C14_Witness ==
    /\ AtReset /\ last.options /\ last.outcome = "ok" /\ JustBuilt
    /\ config.spawn_opponents = List(<<TRUE, FALSE>>)
    /\ config.team_size = List(<<1, 2>>)
    /\ ~spawn_opponents /\ team_size = 1
    /\ state_setter = [blue |-> 1, orange |-> 0]
    /\ TableTotal(steps_by_team_size) = 0

\* C15: after every completed reset, for fixed and for candidate settings, the
\* active configuration step accounts under is the pair told to the adapter
\* (active team size = blue, active opponents-present = orange is non-zero),
\* and that pair is a key of the table.
C15_ActiveIsPairToldToAdapter ==
    (AtReset /\ last.outcome = "ok" /\ WellFormed(config)) =>
        /\ team_size = state_setter.blue
        /\ spawn_opponents = (state_setter.orange # 0)
        /\ HasBucket(steps_by_team_size, spawn_opponents, team_size)

\* The buckets whose count a transition changes.
ChangedBuckets ==
    {p \in TableKeys(steps_by_team_size) :
        Bucket(steps_by_team_size', p[1], p[2]) # Bucket(steps_by_team_size, p[1], p[2])}

\* C16: a step call changes the count of one bucket only; the active
\* configuration, the first-episode flag, the stored configuration, the key set
\* of the table and every other bucket stay as they were, and the active
\* configuration changes in no call other than reset.
C16_StepChangesOneBucket ==
    [][/\ (last'.op = "step") =>
             /\ UNCHANGED <<team_size, spawn_opponents, first_reset, config>>
             /\ DOMAIN steps_by_team_size' = DOMAIN steps_by_team_size
             /\ TableKeys(steps_by_team_size') = TableKeys(steps_by_team_size)
             /\ ChangedBuckets \subseteq {<<spawn_opponents, team_size>>}
             /\ Proceeded(last') => ChangedBuckets = {<<spawn_opponents, team_size>>}
       /\ (team_size' # team_size \/ spawn_opponents' # spawn_opponents) =>
             last'.op = "reset"]_vars

\* A step has added to one bucket of a table of four, the other three at zero.
C16_Witness ==
    /\ last.op = "step" /\ last.outcome = "ok"
    /\ Cardinality(TableKeys(steps_by_team_size)) = 4
    /\ Bucket(steps_by_team_size, spawn_opponents, team_size) > 0
    /\ TableTotal(steps_by_team_size) =
          Bucket(steps_by_team_size, spawn_opponents, team_size)

\* C17: the team sizes told to the adapter never exceed what the current
\* simulation instance was constructed for: blue and orange are at most the
\* team size given to make(), and orange is non-zero only if make() was given
\* opponents present.
C17_ToldWithinConstruction ==
    /\ state_setter.blue <= env.team_size
    /\ state_setter.orange <= env.team_size
    /\ state_setter.orange # 0 => env.spawn_opponents

\* A reset has told the adapter a size below the one the simulation was
\* constructed for, the maximum of the team-size list.
C17_Witness ==
    /\ AtReset /\ last.outcome = "ok"
    /\ config.team_size = List(<<1, 2>>)
    /\ IsList(config.spawn_opponents)
    /\ env.team_size = 2 /\ env.spawn_opponents
    /\ state_setter = [blue |-> 1, orange |-> 1]

\* C19: a configuration with an empty candidate list is rejected with an
\* error when it is given, at construction or at a reset with options, and no
\* later reset or step goes through on a table that has no bucket.
C19_EmptyListFailsFast ==
    /\ ((last.op = "init" \/ (AtReset /\ last.options)) /\ Proceeded(last)) =>
          WellFormed(config)
    /\ (last.op \in {"step", "reset"} /\ Proceeded(last)) =>
          TableKeys(steps_by_team_size) # {}

\* A reset has just selected (b, t) and told the adapter.
Selected(b, t) ==
    /\ AtReset /\ spawn_opponents = b /\ team_size = t
    /\ state_setter = [blue |-> t, orange |-> IF b THEN t ELSE 0]

\* In the middle of an episode, with room left for the loop to go on stepping.
EpisodeWithRoom ==
    /\ last.op = "step"
    /\ TableTotal(steps_by_team_size) <= 6 * MaxTeam

\* C18: with opponents-present [false, true] and a team-size list, no options
\* ever given and at least one step in every episode, no combination is
\* starved: from every episode of the loop (while it goes on stepping), each
\* (opponents-present, team size) combination is selected by a later reset,
\* hence first selected at some reset and selected again after that.
C18_NoStarvation ==
    \A b \in BOOLEAN, t \in TeamSizes :
        (EpisodeWithRoom /\ t \in TeamCandidates(config)) ~> Selected(b, t)

\* An episode with room left that starts after every one of the four
\* combinations has had an episode of its own: each is selected again.
C18_Witness ==
    /\ EpisodeWithRoom
    /\ Cardinality(TableKeys(steps_by_team_size)) = 4
    /\ \A p \in TableKeys(steps_by_team_size) :
          Bucket(steps_by_team_size, p[1], p[2]) > 0

====
